---- MODULE Spec2Model ----
(***************************************************************************)
(* gpxhydrant: one pass of read, diff, write.  Waypoints of a GPX file are *)
(* decoded into local hydrants, the nodes inside the bounding box are      *)
(* fetched from the OSM API and decoded into remote hydrants, and every    *)
(* local hydrant is created, updated or left alone.                        *)
(*                                                                         *)
(* Strings the program inspects character by character (a waypoint         *)
(* comment, a numeric tag value) are sequences of one-character strings.   *)
(* Coordinates are integers counting units of 1e-5 degree, the finest      *)
(* decimal grid on which the program's 9999-degree sentinel still fits a   *)
(* TLC integer; a waypoint's raw coordinate counts tenths of that unit.    *)
(*                                                                         *)
(* main is modelled as it builds with hydrant.go and osm/osm.go: the       *)
(* revision that has hydrantsFromGPXFile, createChangeset, doNoOp and      *)
(* updateOrCreateHydrants.  The earlier revisions of main.go kept in the   *)
(* tree declare parseWaypoint or errWrongGPXComment a second time and open *)
(* the changeset before the map query; they are not part of that build.    *)
(***************************************************************************)
EXTENDS Integers, Sequences, FiniteSets, TLC

VARIABLES
    pc,                 \* where main() stands
    cfg,                \* the run configuration (NoOp, MachRange, Pressure)
    wp,                 \* the waypoint the decode loop handled last
    nread,              \* number of waypoints read from the file so far
    perr,               \* what parseWaypoint returned as error for wp
    hydrants,           \* []*hydrant decoded from the file
    bds,                \* the bounding region
    mapNodes,           \* the nodes RetrieveMapObjects returned
    nodeErrs,           \* per node of mapNodes: the error fromNode returned
    availableHydrants,  \* []*hydrant decoded from mapNodes
    changeset,          \* the package variable changeset (NoChangeset = nil)
    calls,              \* every HTTP request sent to the API, in order
    idx,                \* number of local hydrants reconciled so far
    decisions           \* per reconciled hydrant: the match, the decision and
                        \* the node as SaveNode left it

vars == <<pc, cfg, wp, nread, perr, hydrants, bds, mapNodes, nodeErrs,
          availableHydrants, changeset, calls, idx, decisions>>

-----------------------------------------------------------------------------
(* Bounds of the model *)

MaxLen == 5
MaxWaypoints == 2
MaxNodes == 2
MaxTags == 3

-----------------------------------------------------------------------------
(* Generic helpers *)

SeqsUpTo(S, n) == UNION {[1..k -> S] : k \in 0..n}

Digits == {"0", "1", "2", "3", "4", "5", "6", "7", "8", "9"}

DigitVal(c) ==
    CASE c = "0" -> 0 [] c = "1" -> 1 [] c = "2" -> 2 [] c = "3" -> 3
      [] c = "4" -> 4 [] c = "5" -> 5 [] c = "6" -> 6 [] c = "7" -> 7
      [] c = "8" -> 8 [] c = "9" -> 9

DigitChar(d) ==
    CASE d = 0 -> "0" [] d = 1 -> "1" [] d = 2 -> "2" [] d = 3 -> "3"
      [] d = 4 -> "4" [] d = 5 -> "5" [] d = 6 -> "6" [] d = 7 -> "7"
      [] d = 8 -> "8" [] d = 9 -> "9"

RECURSIVE DigitsValue(_)
DigitsValue(s) ==
    IF s = <<>> THEN 0
    ELSE 10 * DigitsValue(SubSeq(s, 1, Len(s) - 1)) + DigitVal(s[Len(s)])

\* strconv.ParseInt(s, 10, 64): an optional sign and one or more digits.
ParseInt(s) ==
    LET signed == Len(s) > 0 /\ s[1] \in {"+", "-"}
        body   == IF signed THEN Tail(s) ELSE s
    IN  IF Len(body) > 0 /\ \A i \in 1..Len(body) : body[i] \in Digits
        THEN [ok |-> TRUE,
              val |-> IF signed /\ s[1] = "-" THEN -DigitsValue(body)
                      ELSE DigitsValue(body)]
        ELSE [ok |-> FALSE, val |-> 0]

RECURSIVE FormatNat(_)
FormatNat(n) ==
    IF n < 10 THEN <<DigitChar(n)>>
    ELSE Append(FormatNat(n \div 10), DigitChar(n % 10))

\* strconv.FormatInt(n, 10)
FormatInt(n) == IF n < 0 THEN <<"-">> \o FormatNat(-n) ELSE FormatNat(n)

-----------------------------------------------------------------------------
(* hydrant.go: the hydrant type and the waypoint decoder *)

hydrantPositions ==
    [S |-> "sidewalk", P |-> "parking_lot", L |-> "lane", G |-> "green"]

\* The type table with the entry of P copied from the line above it.
hydrantTypesSlip ==
    [U |-> "underground", O |-> "pillar", W |-> "wall", P |-> "pillar"]

hydrantTypes ==
    [U |-> "underground", O |-> "pillar", W |-> "wall", P |-> "pond"]

\* A Go map lookup: the zero value for a missing key.
MapGet(m, k) == IF k \in DOMAIN m THEN m[k] ELSE ""

\* The nil *hydrant.
NoHydrant == [ID |-> -1, Name |-> "", Latitude |-> 0, Longitude |-> 0,
              Diameter |-> 0, Position |-> "", Pressure |-> 0, Type |-> "",
              Version |-> 0]

\* roundPrec: the coordinate printed with a fixed number of decimals and
\* parsed back, that is a raw coordinate (tenths of a unit) rounded to the
\* nearest grid unit.
roundPrec(raw) == (raw + 5) \div 10

\* The pattern with the position class repeated for the second letter:
\* ([SPLG])([SPLG])(\?|[0-9]{2,3})
MatchesAtLoose(c, i) ==
    /\ i + 2 <= Len(c)
    /\ c[i] \in {"S", "P", "L", "G"}
    /\ c[i + 1] \in {"S", "P", "L", "G"}
    /\ \/ c[i + 2] = "?"
       \/ /\ i + 3 <= Len(c)
          /\ c[i + 2] \in Digits
          /\ c[i + 3] \in Digits

\* Whether infoRegex matches comment c at position i:
\* ([SPLG])([UOWP])(\?|[0-9]{2,3})
MatchesAt(c, i) ==
    /\ i + 2 <= Len(c)
    /\ c[i] \in {"S", "P", "L", "G"}
    /\ c[i + 1] \in {"U", "O", "W", "P"}
    /\ \/ c[i + 2] = "?"
       \/ /\ i + 3 <= Len(c)
          /\ c[i + 2] \in Digits
          /\ c[i + 3] \in Digits

\* infoRegex.MatchString
MatchString(c) == \E i \in 1..Len(c) : MatchesAt(c, i)

\* infoRegex.FindStringSubmatch: the leftmost match, the digit run greedy.
FindStringSubmatch(c) ==
    LET i == CHOOSE k \in 1..Len(c) :
                 MatchesAt(c, k) /\ \A j \in 1..(k - 1) : ~MatchesAt(c, j)
        g3 == IF c[i + 2] = "?" THEN <<"?">>
              ELSE IF i + 4 <= Len(c) /\ c[i + 4] \in Digits
                   THEN SubSeq(c, i + 2, i + 4)
                   ELSE SubSeq(c, i + 2, i + 3)
    IN  <<SubSeq(c, i, i + 1 + Len(g3)), c[i], c[i + 1], g3>>

parseWaypoint(in, pressure) ==
    IF ~MatchString(in.Comment)
    THEN [err |-> "errWrongGPXComment", h |-> NoHydrant]
    ELSE LET matches == FindStringSubmatch(in.Comment)
             out == [ID |-> 0, Name |-> in.Name,
                     Latitude |-> roundPrec(in.Latitude),
                     Longitude |-> roundPrec(in.Longitude),
                     Diameter |-> 0,
                     Position |-> MapGet(hydrantPositions, matches[2]),
                     Pressure |-> pressure,
                     Type |-> MapGet(hydrantTypes, matches[3]),
                     Version |-> 0]
         IN  IF matches[4] # <<"?">>
             THEN LET d == ParseInt(matches[4])
                  IN  IF ~d.ok THEN [err |-> "ParseInt", h |-> NoHydrant]
                      ELSE [err |-> "nil", h |-> [out EXCEPT !.Diameter = d.val]]
             ELSE [err |-> "nil", h |-> out]

-----------------------------------------------------------------------------
(* The decode loop of hydrantsFromGPXFile *)

\* bounds{MinLat: 9999, MinLon: 9999}, in units of 1e-5 degree
InitialBounds ==
    [MinLat |-> 9999 * 100000, MinLon |-> 9999 * 100000, MaxLat |-> 0, MaxLon |-> 0]

\* bounds.Update
Update(b, lat, lon) ==
    LET b1 == IF b.MinLat > lat THEN [b EXCEPT !.MinLat = lat] ELSE b
        b2 == IF b1.MaxLat < lat THEN [b1 EXCEPT !.MaxLat = lat] ELSE b1
        b3 == IF b2.MinLon > lon THEN [b2 EXCEPT !.MinLon = lon] ELSE b2
    IN  IF b3.MaxLon < lon THEN [b3 EXCEPT !.MaxLon = lon] ELSE b3

Waypoint(name, lat, lon, comment) ==
    [Name |-> name, Latitude |-> lat, Longitude |-> lon, Comment |-> comment]

NoWaypoint == Waypoint("", 0, 0, <<>>)

\* The waypoints a GPX file of the run is made of: two hydrants at the
\* origin, one 5.6 m south west of it, and a waypoint that is no hydrant.
WaypointFixtures ==
    { Waypoint("w1", 2, -3, <<"S", "U", "?">>),
      Waypoint("w2", -31, -44, <<"S", "U", "1", "5", "0">>),
      Waypoint("w3", 3, 3, <<"x", " ", "L", "U", "?">>),
      Waypoint("w4", 1, 1, <<"U", "S", "1", "0", "0">>) }

PosLetters == {"S", "P", "L", "G"}
TypeLetters == {"U", "O", "W", "P"}
DiameterForms == {<<"?">>, <<"8", "0">>, <<"1", "0", "0">>}

\* Every comment that is exactly one hydrant code.
CodeComments ==
    {<<p, t>> \o d : p \in PosLetters, t \in TypeLetters, d \in DiameterForms}

\* Every comment of up to MaxLen characters over a small alphabet: a letter
\* of the position class only, one of both classes, one of the type class
\* only, the question mark, a digit and a character outside the pattern.
WideComments ==
    SeqsUpTo({"S", "P", "U", "?", "1", "x"}, MaxLen) \cup CodeComments

\* One iteration of `for _, wp := range gpxData.Waypoints`.
DecodeWaypoint(w) ==
    LET r == parseWaypoint(w, cfg.Pressure)
    IN  /\ wp' = w
        /\ nread' = nread + 1
        /\ perr' = r.err
        /\ IF r.err # "nil"
           THEN UNCHANGED <<hydrants, bds>>
           ELSE /\ hydrants' = Append(hydrants, r.h)
                /\ bds' = Update(bds, r.h.Latitude, r.h.Longitude)
        /\ UNCHANGED <<pc, cfg, mapNodes, nodeErrs, availableHydrants, changeset,
                       calls, idx, decisions>>

\* The next waypoint of the file is one of the fixtures.
DecodeStep ==
    /\ pc = "decode"
    /\ nread < MaxWaypoints
    /\ \E w \in WaypointFixtures : DecodeWaypoint(w)

\* The first waypoint of the file carries any comment of WideComments.
DecodeWide ==
    /\ pc = "decode"
    /\ nread = 0
    /\ \E c \in WideComments : DecodeWaypoint(Waypoint("w0", 2, -3, c))

\* The loop ends with the file and its variables go out of scope; main goes
\* on to osm.New.
DecodeDone ==
    /\ pc = "decode"
    /\ pc' = "login"
    /\ wp' = NoWaypoint
    /\ nread' = 0
    /\ perr' = "nil"
    /\ UNCHANGED <<cfg, hydrants, bds, mapNodes, nodeErrs, availableHydrants,
                   changeset, calls, idx, decisions>>

-----------------------------------------------------------------------------
(* hydrant.go: the remote-entity decoder and encoder *)

Tag(k, v) == [Key |-> k, Value |-> v]

NoNode == [ID |-> -1, Version |-> 0, Changeset |-> 0, Latitude |-> 0,
           Longitude |-> 0, Tags |-> <<>>]

\* The loop keeping the position and the type it saw first.
RECURSIVE fromNodeTagsKeepFirst(_, _, _)
fromNodeTagsKeepFirst(tags, i, st) ==
    IF i > Len(tags) \/ st.err # "nil" THEN st
    ELSE LET t == tags[i]
         IN  fromNodeTagsKeepFirst(tags, i + 1,
               CASE t.Key = "emergency" ->
                        [st EXCEPT !.valid = (t.Value = "fire_hydrant")]
                 [] t.Key = "fire_hydrant:diameter" ->
                        LET d == ParseInt(t.Value)
                        IN  IF d.ok THEN [st EXCEPT !.out.Diameter = d.val]
                            ELSE [st EXCEPT !.err = "ParseInt"]
                 [] t.Key = "fire_hydrant:position" ->
                        IF st.out.Position = "" THEN [st EXCEPT !.out.Position = t.Value]
                        ELSE st
                 [] t.Key = "fire_hydrant:pressure" ->
                        LET d == ParseInt(t.Value)
                        IN  IF d.ok THEN [st EXCEPT !.out.Pressure = d.val]
                            ELSE [st EXCEPT !.err = "ParseInt"]
                 [] t.Key = "fire_hydrant:type" ->
                        IF st.out.Type = "" THEN [st EXCEPT !.out.Type = t.Value]
                        ELSE st
                 [] OTHER -> st)

\* The loop `for _, t := range in.Tags` from tag i on; st holds out,
\* validFireHydrant and the error that ended the loop early.
RECURSIVE fromNodeTags(_, _, _)
fromNodeTags(tags, i, st) ==
    IF i > Len(tags) \/ st.err # "nil" THEN st
    ELSE LET t == tags[i]
         IN  fromNodeTags(tags, i + 1,
               CASE t.Key = "emergency" ->
                        [st EXCEPT !.valid = (t.Value = "fire_hydrant")]
                 [] t.Key = "fire_hydrant:diameter" ->
                        LET d == ParseInt(t.Value)
                        IN  IF d.ok THEN [st EXCEPT !.out.Diameter = d.val]
                            ELSE [st EXCEPT !.err = "ParseInt"]
                 [] t.Key = "fire_hydrant:position" ->
                        [st EXCEPT !.out.Position = t.Value]
                 [] t.Key = "fire_hydrant:pressure" ->
                        LET d == ParseInt(t.Value)
                        IN  IF d.ok THEN [st EXCEPT !.out.Pressure = d.val]
                            ELSE [st EXCEPT !.err = "ParseInt"]
                 [] t.Key = "fire_hydrant:type" ->
                        [st EXCEPT !.out.Type = t.Value]
                 [] OTHER -> st)

\* fromNode accepting the node when any of its emergency tags says
\* fire_hydrant.
fromNodeAnyEmergency(in) ==
    LET out == [ID |-> in.ID, Name |-> "", Latitude |-> in.Latitude,
                Longitude |-> in.Longitude, Diameter |-> 0, Position |-> "",
                Pressure |-> 0, Type |-> "", Version |-> in.Version]
        st  == fromNodeTags(in.Tags, 1, [out |-> out, valid |-> FALSE, err |-> "nil"])
        any == \E i \in 1..Len(in.Tags) :
                   in.Tags[i].Key = "emergency" /\ in.Tags[i].Value = "fire_hydrant"
    IN  IF st.err # "nil" THEN [err |-> st.err, h |-> NoHydrant]
        ELSE IF ~any THEN [err |-> "notHydrant", h |-> NoHydrant]
        ELSE [err |-> "nil", h |-> st.out]

\* fromNode looking at the emergency tag before it reports a number that
\* does not parse.
fromNodeVerdictFirst(in) ==
    LET out == [ID |-> in.ID, Name |-> "", Latitude |-> in.Latitude,
                Longitude |-> in.Longitude, Diameter |-> 0, Position |-> "",
                Pressure |-> 0, Type |-> "", Version |-> in.Version]
        st  == fromNodeTags(in.Tags, 1, [out |-> out, valid |-> FALSE, err |-> "nil"])
        em  == {i \in 1..Len(in.Tags) : in.Tags[i].Key = "emergency"}
        valid == /\ em # {}
                 /\ in.Tags[CHOOSE i \in em : \A j \in em : j <= i].Value = "fire_hydrant"
    IN  IF ~valid THEN [err |-> "notHydrant", h |-> NoHydrant]
        ELSE IF st.err # "nil" THEN [err |-> st.err, h |-> NoHydrant]
        ELSE [err |-> "nil", h |-> st.out]

fromNode(in) ==
    LET out == [ID |-> in.ID, Name |-> "", Latitude |-> in.Latitude,
                Longitude |-> in.Longitude, Diameter |-> 0, Position |-> "",
                Pressure |-> 0, Type |-> "", Version |-> in.Version]
        st  == fromNodeTags(in.Tags, 1, [out |-> out, valid |-> FALSE, err |-> "nil"])
    IN  IF st.err # "nil" THEN [err |-> st.err, h |-> NoHydrant]
        ELSE IF ~st.valid THEN [err |-> "notHydrant", h |-> NoHydrant]
        ELSE [err |-> "nil", h |-> st.out]

\* ToNode leaving out the type tag.
ToNodeWithoutType(h) ==
    [ID |-> h.ID, Version |-> h.Version, Changeset |-> 0,
     Latitude |-> h.Latitude, Longitude |-> h.Longitude,
     Tags |-> <<Tag("emergency", "fire_hydrant")>>
              \o (IF h.Diameter > 0
                  THEN <<Tag("fire_hydrant:diameter", FormatInt(h.Diameter))>>
                  ELSE <<>>)
              \o <<Tag("fire_hydrant:position", h.Position),
                   Tag("fire_hydrant:pressure", FormatInt(h.Pressure))>>]

ToNode(h) ==
    [ID |-> h.ID, Version |-> h.Version, Changeset |-> 0,
     Latitude |-> h.Latitude, Longitude |-> h.Longitude,
     Tags |-> <<Tag("emergency", "fire_hydrant")>>
              \o (IF h.Diameter > 0
                  THEN <<Tag("fire_hydrant:diameter", FormatInt(h.Diameter))>>
                  ELSE <<>>)
              \o <<Tag("fire_hydrant:position", h.Position),
                   Tag("fire_hydrant:pressure", FormatInt(h.Pressure)),
                   Tag("fire_hydrant:type", h.Type)>>]

\* NeedsUpdate comparing the display name as well.
NeedsUpdateWithName(h, in) ==
    \/ h.Name # in.Name
    \/ h.Diameter # in.Diameter
    \/ h.Position # in.Position
    \/ h.Pressure # in.Pressure
    \/ h.Type # in.Type

\* found.NeedsUpdate(h)
NeedsUpdate(h, in) ==
    \/ h.Diameter # in.Diameter
    \/ h.Position # in.Position
    \/ h.Pressure # in.Pressure
    \/ h.Type # in.Type

-----------------------------------------------------------------------------
(* The OSM API as the run sees it *)

\* One HTTP request: method and path, the changeset or node id in the path
\* (0 when the path has none), whether the API answered 200, and what was
\* sent: the node, the changeset's tags or the bounding box.  hyd is the
\* position in hydrants of the local hydrant the request was made for.
Call(method, path, id, ok, node, tags, bbox, hyd) ==
    [method |-> method, path |-> path, id |-> id, ok |-> ok, node |-> node,
     tags |-> tags, bbox |-> bbox, hyd |-> hyd]

HydrantTags(diameter, position) ==
    <<Tag("emergency", "fire_hydrant")>>
    \o diameter
    \o <<Tag("fire_hydrant:position", position),
         Tag("fire_hydrant:pressure", <<"4">>),
         Tag("fire_hydrant:type", "underground"),
         Tag("operator", "Stadtwerke Wedel")>>

RemoteNode(version, lat, lon, tags) ==
    [ID |-> 0, Version |-> version, Changeset |-> 0, Latitude |-> lat,
     Longitude |-> lon, Tags |-> tags]

\* The nodes of the map, in the order of their ids, the order in which the
\* API lists them: a hydrant at the origin, one of unknown
\* diameter 18.9 m from it, one 20.0 m from it (just beyond 20 m), one the
\* API reported without a version, a node that is no hydrant, and a hydrant
\* at the origin whose diameter is written with its unit.
NodeFixtures ==
    << RemoteNode(2, 0, 0,
           HydrantTags(<<Tag("fire_hydrant:diameter", <<"1", "0", "0">>)>>, "sidewalk")),
       RemoteNode(3, 8, 15, HydrantTags(<<>>, "sidewalk")),
       RemoteNode(2, 0, 18,
           HydrantTags(<<Tag("fire_hydrant:diameter", <<"1", "0", "0">>)>>, "sidewalk")),
       RemoteNode(0, 0, 0,
           HydrantTags(<<Tag("fire_hydrant:diameter", <<"8", "0">>)>>, "green")),
       RemoteNode(5, 0, 0, <<Tag("amenity", "bench")>>),
       RemoteNode(4, 0, 0,
           HydrantTags(<<Tag("fire_hydrant:diameter", <<"1", "0", "0", "m", "m">>)>>,
                       "sidewalk")) >>

\* The tags a node of the map may carry: the keys fromNode knows, each with
\* two values (for the numbers also one that is no integer), and a key it
\* does not know.
TagChoices ==
    << Tag("emergency", "fire_hydrant"),
       Tag("emergency", "yes"),
       Tag("fire_hydrant:diameter", <<"8", "0">>),
       Tag("fire_hydrant:diameter", <<"1", "0", "0">>),
       Tag("fire_hydrant:diameter", <<"x">>),
       Tag("fire_hydrant:position", "sidewalk"),
       Tag("fire_hydrant:position", "lane"),
       Tag("fire_hydrant:pressure", <<"4">>),
       Tag("fire_hydrant:pressure", <<"6">>),
       Tag("fire_hydrant:pressure", <<"4", "b">>),
       Tag("fire_hydrant:type", "underground"),
       Tag("fire_hydrant:type", "pillar"),
       Tag("amenity", "bench") >>

\* The id of the i-th node of the map: ids are positive and distinct.
NodeId(i) == 100 + i

\* The members of a set of numbers in ascending order.
RECURSIVE Ascending(_)
Ascending(S) ==
    IF S = {} THEN <<>>
    ELSE LET m == CHOOSE x \in S : \A y \in S : x <= y
         IN  <<m>> \o Ascending(S \ {m})

\* The API numbers the changesets it creates: the n-th id of the run.
ChangesetId(n) == 500 + n

RECURSIVE ISqrtIn(_, _, _)
ISqrtIn(n, lo, hi) ==
    IF lo >= hi THEN lo
    ELSE LET mid == (lo + hi + 1) \div 2
         IN  IF mid * mid <= n THEN ISqrtIn(n, mid, hi) ELSE ISqrtIn(n, lo, mid - 1)

ISqrt(n) == ISqrtIn(n, 0, 40000)

\* position.Haversine, in millimetres rather than kilometres: close to the
\* equator and over a few hundred metres the great-circle distance is the
\* plane distance, and a unit of 1e-5 degree is 1.112 m of arc.
Haversine(lonFrom, latFrom, lonTo, latTo) ==
    LET dLat == latTo - latFrom
        dLon == lonTo - lonFrom
    IN  (ISqrt((dLat * dLat + dLon * dLon) * 10000) * 1112) \div 100

\* The comparison with < in place of <=.
InRangeStrict(dist, machRange) == dist < machRange * 1000

\* dist <= float64(cfg.MachRange)/1000.0, both sides in millimetres
InRange(dist, machRange) == dist <= machRange * 1000

\* The loop `for _, a := range availableHydrants` from a on: found is the
\* index of the hydrant found so far, 0 for nil.
RECURSIVE FindFrom(_, _, _, _, _)
FindFrom(h, available, machRange, a, found) ==
    IF a > Len(available) THEN found
    ELSE FindFrom(h, available, machRange, a + 1,
           IF InRange(Haversine(h.Longitude, h.Latitude,
                                available[a].Longitude, available[a].Latitude),
                      machRange)
           THEN a ELSE found)

\* The loop leaving at the first hydrant in range.
FindFirst(h, available, machRange) ==
    LET hits == {a \in 1..Len(available) :
                    InRange(Haversine(h.Longitude, h.Latitude,
                                      available[a].Longitude, available[a].Latitude),
                            machRange)}
    IN  IF hits = {} THEN 0 ELSE CHOOSE a \in hits : \A b \in hits : a <= b

Find(h, available, machRange) == FindFrom(h, available, machRange, 1, 0)


NoChangeset == 0

InitRun(c) ==
    /\ pc = "decode"
    /\ cfg = c
    /\ wp = NoWaypoint
    /\ nread = 0
    /\ perr = "nil"
    /\ hydrants = <<>>
    /\ bds = InitialBounds
    /\ mapNodes = <<>>
    /\ nodeErrs = <<>>
    /\ availableHydrants = <<>>
    /\ changeset = NoChangeset
    /\ calls = <<>>
    /\ idx = 0
    /\ decisions = <<>>

\* The decoder alone: the file's first waypoint is arbitrary.
InitParse ==
    \E p \in {4, 6} : InitRun([NoOp |-> FALSE, MachRange |-> 5, Pressure |-> p])

NextParse == DecodeWide \/ DecodeStep \/ DecodeDone

SpecParse == InitParse /\ [][NextParse]_vars

-----------------------------------------------------------------------------
(* osm/osm.go and the changeset coordinator *)

\* What a step that may end in log.Fatalf leaves behind; node is the osm.Node
\* handed to SaveNode as SaveNode left it (NoNode when it was not called).
Outcome(cs, log, fatal, node) ==
    [cs |-> cs, calls |-> log, fatal |-> fatal, node |-> node]

\* Number of changesets the API created during the run.
Created(log) ==
    Cardinality({i \in 1..Len(log) :
        log[i].method = "PUT" /\ log[i].path = "/changeset/create" /\ log[i].ok})

\* Client.CreateChangeset: PUT /changeset/create, then GET /changeset/<id>;
\* err is "nil" or names the step that failed.
CreateChangeset(log, fail) ==
    LET id  == ChangesetId(Created(log) + 1)
        put == Call("PUT", "/changeset/create", 0, fail # "create", NoNode, <<>>, <<>>, 0)
        get == Call("GET", "/changeset/%s", id, fail # "get", NoNode, <<>>, <<>>, 0)
    IN  IF fail = "create" THEN [err |-> "create", id |-> 0, calls |-> Append(log, put)]
        ELSE IF fail = "get" THEN [err |-> "get", id |-> 0, calls |-> log \o <<put, get>>]
        ELSE IF fail = "count" THEN [err |-> "count", id |-> 0, calls |-> log \o <<put, get>>]
        ELSE [err |-> "nil", id |-> id, calls |-> log \o <<put, get>>]

\* Client.SaveChangeset
SaveChangeset(id, tags, log, fail) ==
    LET urlPath == IF id > 0 THEN "/changeset/%d" ELSE "/changeset/create"
    IN  [err |-> IF fail = "save" THEN "save" ELSE "nil",
         calls |-> Append(log, Call("PUT", urlPath, id, fail # "save", NoNode, tags, <<>>, 0))]

\* SaveNode without the test of ID and Version.
SaveNodeUnchecked(n, cs, log, fail, hyd) ==
    LET urlPath == IF n.ID > 0 THEN "/node/%d" ELSE "/node/create"
        sent == [n EXCEPT !.Changeset = cs]
    IN  [err |-> IF fail = "node" THEN "node" ELSE "nil",
         calls |-> Append(log, Call("PUT", urlPath, n.ID, fail # "node", sent, <<>>, <<>>, hyd)),
         node |-> sent]

\* Client.SaveNode for the local hydrant at position hyd
SaveNode(n, cs, log, fail, hyd) ==
    IF n.ID > 0 /\ n.Version = 0 THEN [err |-> "version", calls |-> log, node |-> n]
    ELSE LET urlPath == IF n.ID > 0 THEN "/node/%d" ELSE "/node/create"
             sent == [n EXCEPT !.Changeset = cs]
         IN  [err |-> IF fail = "node" THEN "node" ELSE "nil",
              calls |-> Append(log, Call("PUT", urlPath, n.ID, fail # "node", sent, <<>>, <<>>, hyd)),
              node |-> sent]

\* createChangeset that never looks at the package variable.
createChangesetUncached(cs, log, fail) ==
    LET c == CreateChangeset(log, fail)
    IN  IF c.err # "nil" THEN Outcome(cs, c.calls, TRUE, NoNode)
        ELSE LET sv == SaveChangeset(c.id, <<Tag("created_by", "gpxhydrant dev")>>,
                                     c.calls, fail)
             IN  IF sv.err # "nil" THEN Outcome(cs, sv.calls, TRUE, NoNode)
                 ELSE Outcome(c.id, sv.calls, FALSE, NoNode)

\* createChangeset taking the first of the user's open changesets, as main
\* did before createChangeset existed: the changeset ChangesetId(0) was
\* open before the run.
createChangesetReusingOpen(cs, log, fail) ==
    IF cs # NoChangeset THEN Outcome(cs, log, FALSE, NoNode)
    ELSE LET list == Call("GET", "/changesets", 0, TRUE, NoNode, <<>>, <<>>, 0)
             sv == SaveChangeset(ChangesetId(0), <<Tag("created_by", "gpxhydrant dev")>>,
                                 Append(log, list), fail)
         IN  IF sv.err # "nil" THEN Outcome(cs, sv.calls, TRUE, NoNode)
             ELSE Outcome(ChangesetId(0), sv.calls, FALSE, NoNode)

\* createChangeset without the call of SaveChangeset.
createChangesetUntagged(cs, log, fail) ==
    IF cs # NoChangeset THEN Outcome(cs, log, FALSE, NoNode)
    ELSE LET c == CreateChangeset(log, fail)
         IN  IF c.err # "nil" THEN Outcome(cs, c.calls, TRUE, NoNode)
             ELSE Outcome(c.id, c.calls, FALSE, NoNode)

\* createChangeset: the changeset of the run, created on first use.
createChangeset(cs, log, fail) ==
    IF cs # NoChangeset THEN Outcome(cs, log, FALSE, NoNode)
    ELSE LET c == CreateChangeset(log, fail)
         IN  IF c.err # "nil" THEN Outcome(cs, c.calls, TRUE, NoNode)
             ELSE LET sv == SaveChangeset(c.id, <<Tag("created_by", "gpxhydrant dev")>>,
                                          c.calls, fail)
                  IN  IF sv.err # "nil" THEN Outcome(cs, sv.calls, TRUE, NoNode)
                      ELSE Outcome(c.id, sv.calls, FALSE, NoNode)

\* doNoOp(message, execution): message is built by the caller, and building
\* it calls createChangeset, before doNoOp looks at cfg.NoOp.
doNoOp(noOp, message, execution) ==
    IF message.fatal \/ noOp THEN message ELSE execution

\* The closure going on after SaveNode returned an error.
ExecutionIgnoringError(h, message, fail, hyd) ==
    LET c  == createChangeset(message.cs, message.calls, fail)
        sn == SaveNode(ToNode(h), c.cs, c.calls, fail, hyd)
    IN  IF c.fatal THEN c ELSE Outcome(c.cs, sn.calls, FALSE, sn.node)

\* The closure passed to doNoOp as execution.
Execution(h, message, fail, hyd) ==
    LET c  == createChangeset(message.cs, message.calls, fail)
        sn == SaveNode(ToNode(h), c.cs, c.calls, fail, hyd)
    IN  IF c.fatal THEN c ELSE Outcome(c.cs, sn.calls, sn.err # "nil", sn.node)

\* The special case left out.
AdoptNothing(h, found) == h

\* Only the id copied.
WithIdentityNoVersion(h, found) == [h EXCEPT !.ID = found.ID]

\* The special case with found.Diameter == 0 in place of found.Diameter > 0.
AdoptDiameterOfZero(h, found) ==
    IF h.Diameter = 0 /\ found.Diameter = 0
    THEN [h EXCEPT !.Diameter = found.Diameter] ELSE h

\* The special case of an unknown recorded diameter
AdoptDiameter(h, found) ==
    IF h.Diameter = 0 /\ found.Diameter > 0
    THEN [h EXCEPT !.Diameter = found.Diameter] ELSE h

\* h.ID = found.ID; h.Version = found.Version
WithIdentity(h, found) == [h EXCEPT !.ID = found.ID, !.Version = found.Version]

-----------------------------------------------------------------------------
(* main *)

border == 90

\* osm.New: the client fetches the user's details.
Login ==
    /\ pc = "login"
    /\ \E ok \in BOOLEAN :
         /\ calls' = Append(calls, Call("GET", "/user/details", 0, ok, NoNode, <<>>, <<>>, 0))
         /\ pc' = IF ok THEN "query" ELSE "aborted"
    /\ UNCHANGED <<cfg, wp, nread, perr, hydrants, bds, mapNodes, nodeErrs,
                   availableHydrants, changeset, idx, decisions>>

\* The nodes of a /map answer lie inside the box that was asked for.
InBox(n, box) ==
    /\ box[1] <= n.Longitude /\ n.Longitude <= box[3]
    /\ box[2] <= n.Latitude /\ n.Latitude <= box[4]

\* The loop `for _, n := range mapData.Nodes` from node i on.
RECURSIVE DecodeNodes(_, _, _)
DecodeNodes(nodes, i, available) ==
    IF i > Len(nodes) THEN available
    ELSE LET r == fromNode(nodes[i])
         IN  DecodeNodes(nodes, i + 1,
                         IF r.err # "nil" THEN available ELSE Append(available, r.h))

\* The arguments of RetrieveMapObjects
BBox ==
    <<bds.MinLon - border, bds.MinLat - border, bds.MaxLon + border, bds.MaxLat + border>>

\* getHydrantsFromOSM when the API answers with nodes
MapAnswer(nodes) ==
    /\ \A i \in 1..Len(nodes) : InBox(nodes[i], BBox)
    /\ calls' = Append(calls, Call("GET", "/map", 0, TRUE, NoNode, <<>>, BBox, 0))
    /\ mapNodes' = nodes
    /\ nodeErrs' = [i \in 1..Len(nodes) |-> fromNode(nodes[i]).err]
    /\ availableHydrants' = DecodeNodes(nodes, 1, <<>>)
    /\ pc' = "reconcile"

\* getHydrantsFromOSM: the answer holds up to MaxNodes nodes of the map.
Query ==
    /\ pc = "query"
    /\ \/ /\ calls' = Append(calls, Call("GET", "/map", 0, FALSE, NoNode, <<>>, BBox, 0))
          /\ pc' = "aborted"
          /\ UNCHANGED <<mapNodes, nodeErrs, availableHydrants>>
       \/ \E S \in SUBSET (1..Len(NodeFixtures)) :
            /\ Cardinality(S) <= MaxNodes
            /\ LET pick == Ascending(S)
               IN  MapAnswer([i \in 1..Len(pick) |->
                                 [NodeFixtures[pick[i]] EXCEPT !.ID = NodeId(pick[i])]])
    /\ UNCHANGED <<cfg, wp, nread, perr, hydrants, bds, changeset, idx, decisions>>

\* getHydrantsFromOSM for a file of one hydrant, when the API answers with
\* one node that lies where the hydrant is and carries any tags.
QueryWide ==
    /\ pc = "query"
    /\ Len(hydrants) = 1
    /\ \E pick \in SeqsUpTo(1..Len(TagChoices), MaxTags) :
         MapAnswer(<<[RemoteNode(1, hydrants[1].Latitude, hydrants[1].Longitude,
                                 [i \in 1..Len(pick) |-> TagChoices[pick[i]]])
                         EXCEPT !.ID = NodeId(1)]>>)
    /\ UNCHANGED <<cfg, wp, nread, perr, hydrants, bds, changeset, idx, decisions>>

FailPoints == {"none", "create", "get", "count", "save", "node"}

\* A create or update decision for the hydrant at idx + 1: h as it is
\* written, after the message and the execution of doNoOp.
Send(orig, h, found, kind, fail) ==
    LET message == createChangeset(changeset, calls, fail)
        o == doNoOp(cfg.NoOp, message, Execution(h, message, fail, idx + 1))
    IN  /\ decisions' = Append(decisions, [h |-> orig, found |-> found, kind |-> kind,
                                            node |-> o.node])
        /\ hydrants' = [hydrants EXCEPT ![idx + 1] = h]
        /\ calls' = o.calls
        /\ changeset' = o.cs
        /\ pc' = IF o.fatal THEN "aborted" ELSE pc
        /\ idx' = IF o.fatal THEN idx ELSE idx + 1

\* One iteration of `for _, h := range hydrants` in updateOrCreateHydrants.
Reconcile ==
    /\ pc = "reconcile"
    /\ idx < Len(hydrants)
    /\ LET h == hydrants[idx + 1]
           found == Find(h, availableHydrants, cfg.MachRange)
       IN  IF found = 0
           THEN \E fail \in FailPoints : Send(h, h, 0, "create", fail)
           ELSE LET a == availableHydrants[found]
                    m == AdoptDiameter(h, a)
                IN  IF ~NeedsUpdate(a, m)
                    THEN /\ decisions' = Append(decisions,
                                [h |-> h, found |-> found, kind |-> "noop",
                                 node |-> NoNode])
                         /\ hydrants' = [hydrants EXCEPT ![idx + 1] = m]
                         /\ idx' = idx + 1
                         /\ UNCHANGED <<pc, calls, changeset>>
                    ELSE \E fail \in FailPoints :
                             Send(h, WithIdentity(m, a), found, "update", fail)
    /\ UNCHANGED <<cfg, wp, nread, perr, bds, mapNodes, nodeErrs, availableHydrants>>

\* updateOrCreateHydrants returns and main ends.
Finish ==
    /\ pc = "reconcile"
    /\ idx = Len(hydrants)
    /\ pc' = "done"
    /\ UNCHANGED <<cfg, wp, nread, perr, hydrants, bds, mapNodes, nodeErrs,
                   availableHydrants, changeset, calls, idx, decisions>>

\* A run, dry or not, with a range of 0 m (only a remote hydrant at the
\* very position matches) or 20 m, under the default pressure.
Init ==
    \E n \in BOOLEAN, r \in {0, 20} :
        InitRun([NoOp |-> n, MachRange |-> r, Pressure |-> 4])

Next == DecodeStep \/ DecodeDone \/ Login \/ Query \/ Reconcile \/ Finish

Spec == Init /\ [][Next]_vars

\* The remote-entity decoder alone: the run up to the map answer.
InitNode == InitRun([NoOp |-> TRUE, MachRange |-> 5, Pressure |-> 4])

NextNode == DecodeStep \/ DecodeDone \/ Login \/ QueryWide

SpecNode == InitNode /\ [][NextNode]_vars

-----------------------------------------------------------------------------
(* Vocabulary of the properties *)

CallIndices == 1..Len(calls)

DecisionIndices == 1..Len(decisions)

\* A request that changes remote state: every PUT.
IsMutating(c) == c.method = "PUT"

IsCreateBatch(c) == c.method = "PUT" /\ c.path = "/changeset/create"

IsUpdateBatch(c) == c.method = "PUT" /\ c.path = "/changeset/%d"

IsNodeWrite(c) == c.method = "PUT" /\ c.path \in {"/node/create", "/node/%d"}

\* The node writes sent for the local hydrant at position i.
WritesFor(i) == {k \in CallIndices : IsNodeWrite(calls[k]) /\ calls[k].hyd = i}

\* Distance in millimetres between a local and a remote hydrant.
Distance(h, r) == Haversine(h.Longitude, h.Latitude, r.Longitude, r.Latitude)

\* The remote hydrants within the configured range of h (boundary included).
WithinRange(h) ==
    {j \in 1..Len(availableHydrants) :
        Distance(h, availableHydrants[j]) <= 1000 * cfg.MachRange}

\* The diameter of local hydrant h after the merge with remote hydrant r.
MergedDiameter(h, r) ==
    IF h.Diameter = 0 /\ r.Diameter > 0 THEN r.Diameter ELSE h.Diameter

\* Whether h and r agree on diameter, position, pressure and type after the merge.
SameAfterMerge(h, r) ==
    /\ MergedDiameter(h, r) = r.Diameter
    /\ h.Position = r.Position
    /\ h.Pressure = r.Pressure
    /\ h.Type = r.Type

\* Decision d is for a matched pair whose fields agree after the merge.
IsNoOpCase(d) ==
    d.found # 0 /\ SameAfterMerge(d.h, availableHydrants[d.found])

\* Decision d is for a matched pair of which some field differs after the merge.
IsUpdateCase(d) ==
    d.found # 0 /\ ~SameAfterMerge(d.h, availableHydrants[d.found])

\* The values node n carries under tag key k, in tag order.
TagValues(n, k) ==
    LET hit == {i \in 1..Len(n.Tags) : n.Tags[i].Key = k}
        RECURSIVE Collect(_)
        Collect(i) ==
            IF i > Len(n.Tags) THEN <<>>
            ELSE (IF i \in hit THEN <<n.Tags[i].Value>> ELSE <<>>) \o Collect(i + 1)
    IN  Collect(1)

\* Node n carries position, pressure and type as given and the diameter when
\* it is known (no diameter tag otherwise).
CarriesAttributes(n, diameter, position, pressure, type) ==
    /\ TagValues(n, "emergency") = <<"fire_hydrant">>
    /\ TagValues(n, "fire_hydrant:position") = <<position>>
    /\ TagValues(n, "fire_hydrant:type") = <<type>>
    /\ Len(TagValues(n, "fire_hydrant:pressure")) = 1
    /\ ParseInt(TagValues(n, "fire_hydrant:pressure")[1]) = [ok |-> TRUE, val |-> pressure]
    /\ IF diameter > 0
       THEN /\ Len(TagValues(n, "fire_hydrant:diameter")) = 1
            /\ ParseInt(TagValues(n, "fire_hydrant:diameter")[1]) = [ok |-> TRUE, val |-> diameter]
       ELSE TagValues(n, "fire_hydrant:diameter") = <<>>

-----------------------------------------------------------------------------
(* The run: dry-run mode and the changeset coordinator *)

\* C1: in dry-run mode (cfg.NoOp) the run sends no mutating request: no
\* PUT /changeset/create, no PUT /changeset/<id> and no PUT /node/...
C1_DryRunSendsNoMutatingCall ==
    cfg.NoOp => \A k \in CallIndices : ~IsMutating(calls[k])

\* C2: as long as every local hydrant reconciled so far is a matched pair that
\* agrees after the merge (also when there is none), no create-batch request
\* was sent, no changeset was requested and the coordinator is absent.
C2_NoOpRunCreatesNoChangeset ==
    (\A i \in DecisionIndices : IsNoOpCase(decisions[i]))
        => /\ changeset = NoChangeset
           /\ \A k \in CallIndices : calls[k].path \notin {"/changeset/create", "/changeset/%s", "/changeset/%d"}

\* A finished run of at least one local hydrant, all of them no-ops.
C2_Witness ==
    /\ pc = "done"
    /\ Len(decisions) >= 1
    /\ \A i \in DecisionIndices : decisions[i].kind = "noop"
    /\ changeset = NoChangeset

-----------------------------------------------------------------------------
(* The run: matching and reconciliation *)

\* C4: a local hydrant with no remote hydrant in range gets a create
\* decision; the node written for it goes to /node/create with ID 0 and
\* Version 0 and carries the local position, type, pressure and diameter;
\* when the run writes and the changeset is open the write was sent.
C4_UnmatchedIsCreated ==
    \A i \in DecisionIndices :
        LET d == decisions[i]
        IN  WithinRange(d.h) = {} =>
              /\ d.kind = "create"
              /\ \A k \in WritesFor(i) :
                    /\ calls[k].path = "/node/create"
                    /\ calls[k].node.ID = 0
                    /\ calls[k].node.Version = 0
                    /\ calls[k].node.Latitude = d.h.Latitude
                    /\ calls[k].node.Longitude = d.h.Longitude
                    /\ CarriesAttributes(calls[k].node, d.h.Diameter, d.h.Position,
                                         d.h.Pressure, d.h.Type)
              /\ (~cfg.NoOp /\ changeset # NoChangeset) => Cardinality(WritesFor(i)) = 1

\* A create write was sent for a hydrant of known diameter beside a remote
\* hydrant that is out of range.
C4_Witness ==
    \E i \in DecisionIndices :
        /\ decisions[i].kind = "create"
        /\ decisions[i].h.Diameter = 150
        /\ availableHydrants # <<>>
        /\ \E k \in WritesFor(i) : calls[k].ok /\ calls[k].node.ID = 0

\* C5: a matched pair that agrees on diameter, position, pressure and type
\* after the remote diameter was adopted for an unknown local one is a
\* no-op: the local hydrant holds the adopted diameter and no node write is
\* sent for it.
C5_EqualAfterMergeIsNoOp ==
    \A i \in DecisionIndices :
        LET d == decisions[i]
        IN  IsNoOpCase(d) =>
              /\ d.kind = "noop"
              /\ hydrants[i].Diameter = availableHydrants[d.found].Diameter
              /\ WritesFor(i) = {}

\* Local diameter unknown against remote diameter 100, all else equal, in a
\* run that writes.
C5_Witness ==
    /\ pc = "done"
    /\ ~cfg.NoOp
    /\ \E i \in DecisionIndices :
          /\ decisions[i].kind = "noop"
          /\ decisions[i].h.Diameter = 0
          /\ availableHydrants[decisions[i].found].Diameter = 100

\* What an update write for decision d has to look like.
IsUpdateWriteOf(c, d) ==
    LET r == availableHydrants[d.found]
    IN  /\ c.path = "/node/%d"
        /\ c.id = r.ID
        /\ c.node.ID = r.ID
        /\ c.node.Version = r.Version
        /\ c.node.Latitude = d.h.Latitude
        /\ c.node.Longitude = d.h.Longitude
        /\ CarriesAttributes(c.node, MergedDiameter(d.h, r), d.h.Position,
                             d.h.Pressure, d.h.Type)

\* C6 as stated: for every matched pair of which a field differs after the
\* merge, exactly one update write is sent, with the remote id and version
\* and the local attribute values.
C6_UpdateWriteAlwaysSent ==
    \A i \in DecisionIndices :
        LET d == decisions[i]
        IN  IsUpdateCase(d) =>
              /\ Cardinality(WritesFor(i)) = 1
              /\ \A k \in WritesFor(i) : IsUpdateWriteOf(calls[k], d)

\* C6 amended: such a pair gets an update decision; exactly one update write
\* with the remote id and version and the local attribute values is sent
\* when the run is no dry run, the changeset was opened and the remote
\* version is not 0, and no node write is sent for it otherwise.
C6_UpdateWriteSentWhenWriting ==
    \A i \in DecisionIndices :
        LET d == decisions[i]
        IN  IsUpdateCase(d) =>
              /\ d.kind = "update"
              /\ \A k \in WritesFor(i) : IsUpdateWriteOf(calls[k], d)
              /\ Cardinality(WritesFor(i)) =
                    IF /\ ~cfg.NoOp
                       /\ changeset # NoChangeset
                       /\ availableHydrants[d.found].Version # 0
                    THEN 1 ELSE 0

\* Local diameter 150 against remote diameter 100: the write carries 150.
C6_Witness ==
    \E i \in DecisionIndices :
        /\ decisions[i].found # 0
        /\ decisions[i].h.Diameter = 150
        /\ availableHydrants[decisions[i].found].Diameter = 100
        /\ \E k \in WritesFor(i) :
              /\ calls[k].ok
              /\ calls[k].node.ID = availableHydrants[decisions[i].found].ID
              /\ TagValues(calls[k].node, "fire_hydrant:diameter") = <<(<<"1", "5", "0">>)>>

\* C7: the remote hydrant selected for a local one is the last, in the
\* order of the remote set, of those within range, and so within range
\* itself; none is selected when none is within range.
C7_LastInRangeIsSelected ==
    \A i \in DecisionIndices :
        LET d == decisions[i]
            S == WithinRange(d.h)
        IN  /\ d.found = IF S = {} THEN 0 ELSE CHOOSE j \in S : \A k \in S : k <= j
            /\ d.found # 0 =>
                 Distance(d.h, availableHydrants[d.found]) <= 1000 * cfg.MachRange

\* The hydrant selected is farther away than another one within range.
C7_Witness ==
    \E i \in DecisionIndices :
        /\ decisions[i].found # 0
        /\ \E j \in WithinRange(decisions[i].h) :
              Distance(decisions[i].h, availableHydrants[j])
                  < Distance(decisions[i].h, availableHydrants[decisions[i].found])

\* C8: a local hydrant is matched exactly when some remote hydrant is at a
\* distance of at most the range; a remote hydrant farther away is never
\* selected; with none in range the local hydrant is unmatched.
C8_MatchedIffInRange ==
    \A i \in DecisionIndices :
        LET d == decisions[i]
        IN  /\ d.found # 0 <=>
                 \E j \in 1..Len(availableHydrants) :
                     Distance(d.h, availableHydrants[j]) <= 1000 * cfg.MachRange
            /\ d.found # 0 =>
                 ~(Distance(d.h, availableHydrants[d.found]) > 1000 * cfg.MachRange)

\* A match at exactly the range, beside a remote hydrant left out for being
\* farther away.
C8_Witness ==
    \E i \in DecisionIndices :
        /\ decisions[i].found # 0
        /\ Distance(decisions[i].h, availableHydrants[decisions[i].found])
              = 1000 * cfg.MachRange
        /\ \E j \in 1..Len(availableHydrants) :
              Distance(decisions[i].h, availableHydrants[j]) > 1000 * cfg.MachRange

-----------------------------------------------------------------------------
(* The waypoint decoder *)

\* The shortest texts the pattern accepts: a position letter, a type letter
\* and a question mark or two digits.
ShortestCodes ==
    {<<p, t, "?">> : p \in PosLetters, t \in TypeLetters}
    \cup {<<p, t, a, b>> : p \in PosLetters, t \in TypeLetters, a \in Digits, b \in Digits}

\* Comment c contains the pattern somewhere.
HasCode(c) ==
    \E i \in 1..Len(c) : \E j \in i..Len(c) : SubSeq(c, i, j) \in ShortestCodes

\* C9: when the waypoint read next has a comment without the pattern,
\* parseWaypoint returns errWrongGPXComment and nothing else; the loop
\* leaves the hydrant list and the bounding region as they were and stays
\* in the loop, ready for the next waypoint.
C9_NonHydrantWaypointSkipped ==
    [][(nread' = nread + 1 /\ ~HasCode(wp'.Comment))
          => /\ perr' = "errWrongGPXComment"
             /\ hydrants' = hydrants
             /\ bds' = bds
             /\ pc' = "decode"]_vars

\* A comment with the two letters in the wrong order was skipped after a
\* hydrant had been decoded.
C9_Witness ==
    /\ pc = "decode"
    /\ nread = 2
    /\ Len(hydrants) = 1
    /\ wp.Comment = <<"U", "S", "1", "0", "0">>
    /\ perr = "errWrongGPXComment"

ExpectedPosition(p) ==
    CASE p = "S" -> "sidewalk" [] p = "P" -> "parking_lot"
      [] p = "L" -> "lane" [] p = "G" -> "green"

ExpectedType(t) ==
    CASE t = "U" -> "underground" [] t = "O" -> "pillar"
      [] t = "W" -> "wall" [] t = "P" -> "pond"

\* The diameter texts of the comments tried, each with its value.
ExpectedDiameters ==
    { <<(<<"?">>), 0>>, <<(<<"8", "0">>), 80>>, <<(<<"1", "0", "0">>), 100>>,
      <<(<<"1", "1">>), 11>>, <<(<<"1", "1", "1">>), 111>> }

\* C10: a comment made of a position letter, a type letter and a diameter
\* decodes without error to the position and type the tables give for the
\* letters and to the diameter's value (0 for "?"); every decoded hydrant has
\* ID 0, Version 0, the configured pressure and a position and a type that
\* are not empty.
C10_CodeDecodesToAttributes ==
    (pc = "decode" /\ nread >= 1) =>
        /\ \A p \in PosLetters, t \in TypeLetters, e \in ExpectedDiameters :
              wp.Comment = <<p, t>> \o e[1] =>
                  /\ perr = "nil"
                  /\ hydrants[Len(hydrants)].Position = ExpectedPosition(p)
                  /\ hydrants[Len(hydrants)].Type = ExpectedType(t)
                  /\ hydrants[Len(hydrants)].Diameter = e[2]
        /\ perr = "nil" =>
              /\ hydrants[Len(hydrants)].ID = 0
              /\ hydrants[Len(hydrants)].Version = 0
              /\ hydrants[Len(hydrants)].Pressure = cfg.Pressure
              /\ hydrants[Len(hydrants)].Position
                    \in {"sidewalk", "parking_lot", "lane", "green"}
              /\ hydrants[Len(hydrants)].Type
                    \in {"underground", "pillar", "wall", "pond"}

\* PP100 decoded under a pressure of 6: parking_lot, pond, 100.
C10_Witness ==
    /\ pc = "decode"
    /\ cfg.Pressure = 6
    /\ wp.Comment = <<"P", "P", "1", "0", "0">>
    /\ perr = "nil"
    /\ hydrants[Len(hydrants)].Position = "parking_lot"
    /\ hydrants[Len(hydrants)].Type = "pond"
    /\ hydrants[Len(hydrants)].Diameter = 100
    /\ hydrants[Len(hydrants)].Pressure = 6

-----------------------------------------------------------------------------
(* The remote-entity decoder *)

NodeIndices == 1..Len(mapNodes)

\* Node n carries a tag with key k and value v.
HasTag(n, k, v) ==
    \E i \in 1..Len(n.Tags) : n.Tags[i].Key = k /\ n.Tags[i].Value = v

\* The value of the last tag of n with key k, none for a missing key.
LastValue(n, k, none) ==
    LET vs == TagValues(n, k) IN IF Len(vs) = 0 THEN none ELSE vs[Len(vs)]

\* The integer the last tag of n with key k holds, 0 for a missing key.
LastInt(n, k) ==
    LET vs == TagValues(n, k) IN IF Len(vs) = 0 THEN 0 ELSE ParseInt(vs[Len(vs)]).val

NumericKeys == {"fire_hydrant:diameter", "fire_hydrant:pressure"}

\* Every diameter and pressure tag of n holds an integer.
NumericTagsParse(n) ==
    \A i \in 1..Len(n.Tags) :
        n.Tags[i].Key \in NumericKeys => ParseInt(n.Tags[i].Value).ok

\* The last diameter tag and the last pressure tag of n hold an integer.
LastNumericTagsParse(n) ==
    \A k \in NumericKeys :
        LET vs == TagValues(n, k) IN Len(vs) = 0 \/ ParseInt(vs[Len(vs)]).ok

\* The hydrant decoded from node i of the map answer.
DecodedOf(i) ==
    availableHydrants[Cardinality({j \in 1..i : nodeErrs[j] = "nil"})]

\* C11 as stated: a node whose numbers parse is accepted exactly when some
\* tag of it is emergency=fire_hydrant.
C11_AcceptedIffEmergencyTagPresent ==
    \A i \in NodeIndices :
        NumericTagsParse(mapNodes[i]) =>
            (nodeErrs[i] = "nil" <=> HasTag(mapNodes[i], "emergency", "fire_hydrant"))

\* C11 amended: a node whose numbers parse is accepted exactly when the last
\* of its tags with key emergency has the value fire_hydrant.
C11_AcceptedIffLastEmergencyIsHydrant ==
    \A i \in NodeIndices :
        NumericTagsParse(mapNodes[i]) =>
            (nodeErrs[i] = "nil" <=> LastValue(mapNodes[i], "emergency", "") = "fire_hydrant")

\* emergency=fire_hydrant followed by emergency=yes: not a hydrant.
C11_Witness ==
    \E i \in NodeIndices :
        /\ TagValues(mapNodes[i], "emergency") = <<"fire_hydrant", "yes">>
        /\ nodeErrs[i] = "notHydrant"

\* C12 as stated: a node without the tag emergency=fire_hydrant is
\* classified as no hydrant, whatever its diameter and pressure tags hold.
C12_NoEmergencyTagIsNotHydrant ==
    \A i \in NodeIndices :
        ~HasTag(mapNodes[i], "emergency", "fire_hydrant") => nodeErrs[i] = "notHydrant"

\* C12 amended: a node without the tag emergency=fire_hydrant whose numbers
\* all parse is classified as no hydrant; a node with a diameter or pressure
\* that is no integer gets the parse error, with or without the emergency
\* tag; the two errors differ and neither adds a hydrant.
C12_NotHydrantUnlessNumberMalformed ==
    \A i \in NodeIndices :
        /\ (~HasTag(mapNodes[i], "emergency", "fire_hydrant") /\ NumericTagsParse(mapNodes[i]))
              => nodeErrs[i] = "notHydrant"
        /\ ~NumericTagsParse(mapNodes[i]) => nodeErrs[i] = "ParseInt"
        /\ Len(availableHydrants) = Cardinality({j \in NodeIndices : nodeErrs[j] = "nil"})

\* A node without an emergency tag and with a pressure of 4b: parse error.
C12_Witness ==
    \E i \in NodeIndices :
        /\ TagValues(mapNodes[i], "emergency") = <<>>
        /\ TagValues(mapNodes[i], "fire_hydrant:pressure") = <<(<<"4", "b">>)>>
        /\ nodeErrs[i] = "ParseInt"
        /\ availableHydrants = <<>>

\* What the last occurrences of the recognised keys of node i decode to.
DecodesFromLast(i) ==
    LET n == mapNodes[i]
    IN  /\ nodeErrs[i] = "nil" <=> LastValue(n, "emergency", "") = "fire_hydrant"
        /\ nodeErrs[i] = "nil" =>
              /\ DecodedOf(i).Diameter = LastInt(n, "fire_hydrant:diameter")
              /\ DecodedOf(i).Pressure = LastInt(n, "fire_hydrant:pressure")
              /\ DecodedOf(i).Position = LastValue(n, "fire_hydrant:position", "")
              /\ DecodedOf(i).Type = LastValue(n, "fire_hydrant:type", "")

\* C19 as stated: the last occurrence of each recognised key alone decides
\* the verdict and the decoded attributes.
C19_LastOccurrenceAloneDecides ==
    \A i \in NodeIndices : LastNumericTagsParse(mapNodes[i]) => DecodesFromLast(i)

\* C19 amended: when every diameter and pressure tag holds an integer, the
\* last occurrence of each recognised key decides the verdict and the
\* decoded attributes.
C19_LastOccurrenceDecidesWhenNumbersParse ==
    \A i \in NodeIndices : NumericTagsParse(mapNodes[i]) => DecodesFromLast(i)

\* Position sidewalk, then lane: the hydrant is in the lane.
C19_Witness ==
    \E i \in NodeIndices :
        /\ TagValues(mapNodes[i], "fire_hydrant:position") = <<"sidewalk", "lane">>
        /\ nodeErrs[i] = "nil"
        /\ DecodedOf(i).Position = "lane"

-----------------------------------------------------------------------------
(* The run: errors *)

\* C13: once the map answer holds a node whose diameter or pressure is no
\* integer, nothing is matched, no changeset is requested and no node is
\* written.
C13_MalformedRemoteStopsRun ==
    (\E i \in NodeIndices : nodeErrs[i] = "ParseInt")
        => /\ decisions = <<>>
           /\ \A k \in CallIndices : ~IsCreateBatch(calls[k]) /\ ~IsNodeWrite(calls[k])

\* C14: a request the API did not answer with success is the last request
\* of the run and the run is aborted; an aborted run takes no further step:
\* no request, no decision for the hydrants that remain; the requests sent
\* before stay as they were.
C14_FailedCallAbortsRun ==
    /\ [](\A k \in CallIndices : ~calls[k].ok => (k = Len(calls) /\ pc = "aborted"))
    /\ [][pc = "aborted" => (calls' = calls /\ decisions' = decisions /\ idx' = idx)]_vars
    /\ [][/\ Len(calls') >= Len(calls)
          /\ \A k \in CallIndices : calls'[k] = calls[k]]_vars

\* The second node write failed after the first had succeeded.
C14_Witness ==
    /\ pc = "aborted"
    /\ idx < Len(hydrants)
    /\ \E j \in CallIndices :
          /\ j = Len(calls)
          /\ IsNodeWrite(calls[j]) /\ ~calls[j].ok
          /\ \E k \in 1..(j - 1) : IsNodeWrite(calls[k]) /\ calls[k].ok

\* SaveNode got a node with an id and no version for decision i.
RefusedBySaveNode(i) ==
    decisions[i].node.ID > 0 /\ decisions[i].node.Version = 0

\* No node write carries an id without a version, and a node SaveNode
\* refused was not sent and has its Changeset field as ToNode left it.
NoWriteWithoutVersion ==
    /\ \A k \in CallIndices :
          IsNodeWrite(calls[k]) => ~(calls[k].node.ID > 0 /\ calls[k].node.Version = 0)
    /\ \A i \in DecisionIndices :
          RefusedBySaveNode(i) =>
              /\ decisions[i].node.Changeset = 0
              /\ WritesFor(i) = {}
              /\ pc = "aborted"

\* Decision i is an update against a remote hydrant without a version.
IsUpdateOfVersionless(i) ==
    /\ decisions[i].kind = "update"
    /\ availableHydrants[decisions[i].found].Version = 0

-----------------------------------------------------------------------------
(* The changeset coordinator *)

\* The changeset ids the API returned for the create-batch requests among
\* the first k requests of the run.
ReturnedBy(k) == {ChangesetId(n) : n \in 1..Created(SubSeq(calls, 1, k))}

\* C16: the changeset id of every node write and of every update-batch
\* request was returned by a create-batch request sent earlier in the run,
\* and the run never asks for the user's open changesets.
C16_WritesGoToOwnChangeset ==
    \A k \in CallIndices :
        /\ IsNodeWrite(calls[k]) => calls[k].node.Changeset \in ReturnedBy(k - 1)
        /\ IsUpdateBatch(calls[k]) => calls[k].id \in ReturnedBy(k - 1)
        /\ calls[k].path # "/changesets"

\* An update write was sent on the changeset the run created.
C16_Witness ==
    \E k \in CallIndices :
        /\ calls[k].ok
        /\ calls[k].path = "/node/%d"
        /\ calls[k].node.Changeset = ChangesetId(1)
        /\ changeset = ChangesetId(1)

\* A request of createChangeset: create-batch, the read of the new
\* changeset, update-batch.
IsChangesetCall(c) ==
    c.path \in {"/changeset/create", "/changeset/%s", "/changeset/%d"}

-----------------------------------------------------------------------------
(* The bounding region and the merge of the diameter *)

HydrantIndices == 1..Len(hydrants)

\* The least and the greatest member of a non-empty set of numbers.
Least(S) == CHOOSE x \in S : \A y \in S : x <= y

Greatest(S) == CHOOSE x \in S : \A y \in S : y <= x

\* C18: once the file is decoded and gave at least one hydrant, the bounds
\* are the least and the greatest latitude and longitude of the hydrants,
\* and every hydrant lies inside them.
C18_BoundsAreExtremesOfHydrants ==
    (pc # "decode" /\ hydrants # <<>>) =>
        /\ bds.MinLat = Least({hydrants[i].Latitude : i \in HydrantIndices})
        /\ bds.MaxLat = Greatest({hydrants[i].Latitude : i \in HydrantIndices})
        /\ bds.MinLon = Least({hydrants[i].Longitude : i \in HydrantIndices})
        /\ bds.MaxLon = Greatest({hydrants[i].Longitude : i \in HydrantIndices})
        /\ \A i \in HydrantIndices :
              /\ bds.MinLat <= hydrants[i].Latitude /\ hydrants[i].Latitude <= bds.MaxLat
              /\ bds.MinLon <= hydrants[i].Longitude /\ hydrants[i].Longitude <= bds.MaxLon

\* C20: an update write against a remote hydrant of known diameter carries
\* exactly one diameter tag, and its value is positive: the remote
\* diameter when the local one was unknown, the local one otherwise.
C20_UpdateKeepsKnownDiameter ==
    \A k \in CallIndices :
        (IsNodeWrite(calls[k]) /\ calls[k].path = "/node/%d") =>
            LET d  == decisions[calls[k].hyd]
                r  == availableHydrants[d.found]
                vs == TagValues(calls[k].node, "fire_hydrant:diameter")
            IN  r.Diameter > 0 =>
                  /\ Len(vs) = 1
                  /\ ParseInt(vs[1]).ok
                  /\ ParseInt(vs[1]).val > 0
                  /\ ParseInt(vs[1]).val =
                        IF d.h.Diameter = 0 THEN r.Diameter ELSE d.h.Diameter

\* A hydrant of unknown diameter recorded in the lane against a remote one
\* of diameter 100 on the sidewalk: the update carries 100.
C20_Witness ==
    \E k \in CallIndices :
        /\ calls[k].path = "/node/%d"
        /\ calls[k].ok
        /\ decisions[calls[k].hyd].h.Diameter = 0
        /\ decisions[calls[k].hyd].h.Position = "lane"
        /\ availableHydrants[decisions[calls[k].hyd].found].Position = "sidewalk"
        /\ TagValues(calls[k].node, "fire_hydrant:diameter") = <<(<<"1", "0", "0">>)>>

-----------------------------------------------------------------------------
(* The map query and the targets of the updates *)

\* C21: in every map query sent, the first bound of each axis is below the
\* second: min longitude < max longitude and min latitude < max latitude.
C21_QueryMinBelowMax ==
    \A k \in CallIndices :
        calls[k].path = "/map" =>
            /\ calls[k].bbox[1] < calls[k].bbox[3]
            /\ calls[k].bbox[2] < calls[k].bbox[4]

\* An update write: a node write to the path of an existing node.
IsUpdateWrite(c) == IsNodeWrite(c) /\ c.path = "/node/%d"

\* C22: no two update writes of the run are for the same remote node.
C22_OneUpdatePerRemote ==
    \A j \in CallIndices : \A k \in CallIndices :
        (j < k /\ IsUpdateWrite(calls[j]) /\ IsUpdateWrite(calls[k]))
            => calls[j].id # calls[k].id

====
